---- MODULE Spec2Model ----
(***************************************************************************)
(* Plugin resolution and loading core of godel (package plugins).          *)
(*                                                                         *)
(* The model follows LoadPluginsTasks: the resolver sweep of               *)
(* resolvePlugins over the declared plugins (installed check, archive      *)
(* retrieval, extraction, checksum verification, info probe), the error    *)
(* summary, verifyPluginCompatibility and the construction of the task     *)
(* list.  Strings that the code compares or concatenates (locators, file   *)
(* names, task names) are sequences of one-character strings, ordered      *)
(* byte-wise as Go orders strings.                                         *)
(***************************************************************************)
EXTENDS Naturals, Sequences, FiniteSets

\* Largest number of plugins declared in the configuration.
MaxPlugins == 2

\* Largest number of default resolvers in the configuration.
MaxResolvers == 2

\* Largest number of arguments the user gives after a task name.
MaxTailArgs == 3

\* const indentSpaces: the indentation unit of both error texts.
indentSpaces == 4

----------------------------------------------------------------------------
(* Strings *)

\* The characters used by the model, in ascending byte order (ASCII).
Alphabet == <<"-", ".", "1", "2", ":", "a", "b", "c", "d", "g", "t", "z">>

Ord(c) == CHOOSE i \in 1..Len(Alphabet) : Alphabet[i] = c

\* Go's s < t on strings: byte-wise lexicographic order.
RECURSIVE StrLess(_, _)
StrLess(s, t) ==
    IF t = <<>> THEN FALSE
    ELSE IF s = <<>> THEN TRUE
    ELSE IF Head(s) = Head(t) THEN StrLess(Tail(s), Tail(t))
    ELSE Ord(Head(s)) < Ord(Head(t))

\* All enumerations of a finite set: the orders in which a range over a Go
\* map can deliver its keys.
Enumerations(S) ==
    {s \in [1..Cardinality(S) -> S] :
        \A i, j \in 1..Cardinality(S) : i # j => s[i] # s[j]}

\* The elements of a sequence.
Range(s) == {s[i] : i \in 1..Len(s)}

\* The empty map.
EmptyMap == <<>>

\* m with key k set to v (Go: m[k] = v).
MapPut(m, k, v) == [x \in DOMAIN m \cup {k} |-> IF x = k THEN v ELSE m[x]]

----------------------------------------------------------------------------
(* Locators and the installation layout *)

locator(g, p, v) == [Group |-> g, Product |-> p, Version |-> v]

\* The locators a configuration can declare: two versions of one plugin,
\* and another plugin; groups and products contain '-'.
Locators ==
    { locator(<<"a", "-", "b">>, <<"c">>, <<"1">>),
      locator(<<"a", "-", "b">>, <<"c">>, <<"2">>),
      locator(<<"a">>, <<"b", "-", "c">>, <<"1">>) }

\* locator.String(): group:product:version.
LocatorString(l) == l.Group \o <<":">> \o l.Product \o <<":">> \o l.Version

\* pluginFileName: group-product-version.
pluginFileName(l) == l.Group \o <<"-">> \o l.Product \o <<"-">> \o l.Version

\* The archive's name in the downloads directory: pluginFileName + ".tgz".
archiveFileName(l) == pluginFileName(l) \o <<".", "t", "g", "z">>

\* path.Join(dir, name).
PathJoin(dir, name) == [dir |-> dir, name |-> name]

pluginPath(dir, l) == PathJoin(dir, pluginFileName(l))

\* The plugins and downloads directories of the godel home.
PluginsDirName == "plugins"
DownloadsDirName == "downloads"

\* A mutation of LocatorLess: compares the fields instead of the rendered
\* string, so "a-b" sorts after "a".
LocatorLessByField(a, b) ==
    IF a.Group # b.Group THEN StrLess(a.Group, b.Group)
    ELSE IF a.Product # b.Product THEN StrLess(a.Product, b.Product)
    ELSE StrLess(a.Version, b.Version)

\* The less function of sortLocators.
LocatorLess(a, b) == StrLess(LocatorString(a), LocatorString(b))

\* Insertion of x into a sequence sorted by LocatorLess.
RECURSIVE InsertLocator(_, _)
InsertLocator(x, s) ==
    IF s = <<>> THEN <<x>>
    ELSE IF LocatorLess(x, Head(s)) THEN <<x>> \o s
    ELSE <<Head(s)>> \o InsertLocator(x, Tail(s))

RECURSIVE InsertionSortLocators(_)
InsertionSortLocators(locs) ==
    IF locs = <<>> THEN <<>>
    ELSE InsertLocator(Head(locs), InsertionSortLocators(Tail(locs)))

\* A mutation of sortLocators: the slice is left in the order it was built.
sortLocatorsNoSort(locs) == locs

\* sortLocators: sort.Slice by the rendered locator string.
sortLocators(locs) == InsertionSortLocators(locs)

\* sort.Strings on task names.
RECURSIVE InsertString(_, _)
InsertString(x, s) ==
    IF s = <<>> THEN <<x>>
    ELSE IF StrLess(x, Head(s)) THEN <<x>> \o s
    ELSE <<Head(s)>> \o InsertString(x, Tail(s))

RECURSIVE sortStrings(_)
sortStrings(s) ==
    IF s = <<>> THEN <<>> ELSE InsertString(Head(s), sortStrings(Tail(s)))

----------------------------------------------------------------------------
(* Files, archives and plugin executables *)

\* No file at a path.
Absent == "absent"

\* What is left at the install path when the file was created and
\* truncated but the archive's entry was not written to it in full.
Stub == "stub"

\* The plugin executables an archive can carry.  "garbage" is a file that
\* does not answer the info command with a parsable document.
Executables == {"echoer", "linter", "checker", "doubler", "garbage"}

FileContents == Executables \cup {Stub}

\* The task names each executable declares, in the order of its info
\* document.
DeclaredTaskNames(content) ==
    CASE content = "echoer"  -> << <<"b">>, <<"a">> >>
      [] content = "linter"  -> << <<"a">> >>
      [] content = "checker" -> << <<"c">> >>
      [] content = "doubler" -> << <<"d">>, <<"d">> >>
      [] OTHER -> <<>>

\* Whether the info probe of a file succeeds.
AnswersInfo(content) == content \in Executables \ {"garbage"}

\* The archives a resolver can deliver: a tgz with exactly one regular
\* file, or a structurally invalid one.
InvalidArchive == "invalid"
NoArchive == "none"
Archives == Executables \cup {InvalidArchive}

\* hex SHA-256 digest of a file's bytes.
NoDigest == <<>>
sha256Hex(content) == <<"sha256", content>>

\* The one OSArch of the process (osarch.Current()).
CurrentOSArch == "linux-amd64"

\* A digest a configuration can name.
ConfiguredDigests == {sha256Hex("echoer")}

\* The same hexadecimal digest written with upper-case letters.
upperHex(digest) == <<"SHA256", digest[2]>>

\* Equality of two hexadecimal digests up to the case of their letters.
EqualFold(a, b) == a[2] = b[2]

----------------------------------------------------------------------------
(* Configuration *)

\* Checksums of a plugin: a map from OSArch to digest, here with or
\* without an entry for the current OSArch.
ChecksumMaps ==
    {EmptyMap} \cup {[o \in {CurrentOSArch} |-> d] : d \in ConfiguredDigests}

\* A resolver: a URL template.  The custom resolver of a plugin and the
\* default resolvers, told apart by their number.
resolver(custom, id) == [custom |-> custom, id |-> id]

CustomResolver == resolver(TRUE, 0)

DefaultResolverTemplates == {resolver(FALSE, i) : i \in 1..MaxResolvers}

\* pluginParam.Resolver: at most one custom resolver, as a list.
NoResolver == <<>>

pluginParamWithResolver(l, sums, r) ==
    [locator |-> l, Checksums |-> sums, Resolver |-> r]

pluginParam(l, sums) == pluginParamWithResolver(l, sums, NoResolver)

\* The template rendered for a locator and an OSArch.
renderURL(r, l, osArch) == [template |-> r, locator |-> l, osArch |-> osArch]

\* The sequences of at most n distinct locators.
LocatorSeqs(n) ==
    UNION {{s \in [1..k -> Locators] :
                \A i, j \in 1..k : i # j => s[i] # s[j]} : k \in 0..n}

\* projectParams as projectParamsFromConfig delivers them: declared plugins
\* in declaration order, no locator declared twice.
ProjectParams ==
    UNION {{[DefaultResolvers |-> <<resolver(FALSE, 1)>>,
             Plugins |-> [i \in 1..Len(ls) |-> pluginParam(ls[i], cs[i])]] :
                cs \in [1..Len(ls) -> ChecksumMaps]} : ls \in LocatorSeqs(MaxPlugins)}

----------------------------------------------------------------------------
(* State *)

\* The plugins directory is the state that loads share.  An archive in the
\* downloads directory is read only by the iteration that retrieved it
\* (lines 106-128) and every retrieval writes it anew, so the directory
\* keeps the names of the archives and tgzFile holds the bytes of the one
\* the running iteration retrieved.  Reading a file that exists succeeds.
VARIABLES
    param,          \* the projectParams of this project (unchanged across loads)
    pluginsDir,     \* plugins directory: file name -> content or Absent
    downloadsDir,   \* downloads directory: the names of the archives in it
    tgzFile,        \* the archive this iteration retrieved to tgzDstPath
    pc,             \* position of the running load
    idx,            \* index into param.Plugins of the plugin being resolved
    plugins,        \* resolvePlugins: map locator -> plugin info
    pluginErrors,   \* resolvePlugins: map locator -> error
    resolved,       \* what resolvePlugins returned
    conflicts,      \* verifyPluginCompatibility: map locator -> map locator -> error
    trace,          \* the file and process operations of the running load, in order
    result,         \* what LoadPluginsTasks returned
    previous,       \* what the load before this one returned
    stdout,         \* the progress lines the running load wrote
    launch          \* the last invocation of plugin tasks by the launcher

vars == <<param, pluginsDir, downloadsDir, tgzFile, pc, idx, plugins, pluginErrors,
          resolved, conflicts, trace, result, previous, stdout, launch>>

InstallNames == {pluginFileName(l) : l \in Locators}

NoPath == PathJoin("", <<>>)

\* An error of one plugin.  locator is the key it is stored under.
pluginError(l, msg, cause, path, want, got) ==
    [locator |-> l, msg |-> msg, cause |-> cause, path |-> path,
     want |-> want, got |-> got]

NoError == [kind |-> "none", n |-> 0, noun |-> "", indent |-> 0, lines |-> <<>>]

NoResult == [status |-> "pending", tasks |-> <<>>, err |-> NoError]

\* What is kept of the load before the running one: whether it returned
\* tasks, and which.
NoPrevious == [ok |-> FALSE, tasks |-> <<>>]

NilPlugins == [nil |-> TRUE, m |-> EmptyMap, err |-> NoError]

event(op, l, ok) == [op |-> op, locator |-> l, ok |-> ok]

\* The locator of an event that concerns no single plugin.
NoLocator == locator(<<>>, <<>>, <<>>)

currPlugin == param.Plugins[idx]
currPluginLocator == currPlugin.locator
currPluginDstPath == PathJoin(PluginsDirName, pluginFileName(currPluginLocator))
tgzDstPath == PathJoin(DownloadsDirName, archiveFileName(currPluginLocator))

\* Configurations of a single plugin that vary what the retrieval and the
\* checksum comparison depend on: a custom resolver or none, any list of
\* default resolvers, and a digest in either letter case or none.
ResolverSeqs ==
    UNION {[1..n -> DefaultResolverTemplates] : n \in 0..MaxResolvers}

ResolverParams ==
    {[DefaultResolvers |-> ds,
      Plugins |-> <<pluginParamWithResolver(l, cs, r)>>] :
        ds \in ResolverSeqs, l \in Locators,
        cs \in ChecksumMaps \cup {[a \in {CurrentOSArch} |-> upperHex(d)] :
                                      d \in ConfiguredDigests},
        r \in {NoResolver, <<CustomResolver>>}}

\* The launcher has invoked no task.
NoLaunch ==
    [mode |-> "none", tasks |-> <<>>, global |-> [projectDir |-> "", debug |-> FALSE],
     tail |-> <<>>, apply |-> TRUE, runs |-> <<>>]

Init ==
    /\ param \in ProjectParams
    /\ pluginsDir = [n \in InstallNames |-> Absent]
    /\ downloadsDir = {}
    /\ tgzFile = NoArchive
    /\ pc = "idle"
    /\ idx = 0
    /\ plugins = EmptyMap
    /\ pluginErrors = EmptyMap
    /\ resolved = NilPlugins
    /\ conflicts = EmptyMap
    /\ trace = <<>>
    /\ result = NoResult
    /\ previous = NoPrevious
    /\ stdout = <<>>
    /\ launch = NoLaunch

\* The same start, for a configuration of ResolverParams.
InitResolvers ==
    /\ param \in ResolverParams
    /\ pluginsDir = [n \in InstallNames |-> Absent]
    /\ downloadsDir = {}
    /\ tgzFile = NoArchive
    /\ pc = "idle"
    /\ idx = 0
    /\ plugins = EmptyMap
    /\ pluginErrors = EmptyMap
    /\ resolved = NilPlugins
    /\ conflicts = EmptyMap
    /\ trace = <<>>
    /\ result = NoResult
    /\ previous = NoPrevious
    /\ stdout = <<>>
    /\ launch = NoLaunch

\* The position after the loop body for the current plugin ends (falling
\* off its end or `continue`).
NextPlugin ==
    /\ tgzFile' = NoArchive
    /\ IF idx < Len(param.Plugins)
       THEN /\ idx' = idx + 1
            /\ pc' = "stat"
       ELSE /\ idx' = idx
            /\ pc' = "summarize"

\* A mutation of RecordError: the sweep stops at the first plugin that
\* fails.
RecordErrorAndStop(err) ==
    /\ pluginErrors' = MapPut(pluginErrors, currPluginLocator, err)
    /\ tgzFile' = NoArchive
    /\ idx' = idx
    /\ pc' = "summarize"

\* pluginErrors[currPluginLocator] = err; continue
RecordError(err) ==
    /\ pluginErrors' = MapPut(pluginErrors, currPluginLocator, err)
    /\ NextPlugin

----------------------------------------------------------------------------
(* The plugin info protocol and the tasks of a plugin *)

\* pluginapi.InfoFromPlugin: runs the file with the info command and
\* parses its output.  The outcome is a function of the file's bytes.
InfoFromPlugin(content) ==
    IF AnswersInfo(content)
    THEN [ok |-> TRUE, info |-> [tasks |-> DeclaredTaskNames(content)]]
    ELSE [ok |-> FALSE, info |-> [tasks |-> <<>>]]

\* Info.Tasks(pluginExecPath): one runnable task per declared task, in the
\* order of the info document, bound to the plugin's executable.
Tasks(info, pluginExecPath) ==
    [i \in 1..Len(info.tasks) |->
        [Name |-> info.tasks[i], exec |-> pluginExecPath]]

----------------------------------------------------------------------------
(* LoadPluginsTasks, up to the call of resolvePlugins *)

LoadPluginsTasks ==
    /\ pc \in {"idle", "done"}
    /\ previous' = [ok |-> result.status = "ok", tasks |-> result.tasks]
    /\ result' = NoResult
    /\ plugins' = EmptyMap
    /\ pluginErrors' = EmptyMap
    /\ resolved' = NilPlugins
    /\ conflicts' = EmptyMap
    /\ trace' = <<>>
    /\ IF Len(param.Plugins) = 0
       THEN idx' = 0 /\ pc' = "summarize"
       ELSE idx' = 1 /\ pc' = "stat"
    /\ stdout' = <<>>
    /\ UNCHANGED <<param, pluginsDir, downloadsDir, tgzFile, launch>>

----------------------------------------------------------------------------
(* resolvePlugins: the loop body for param.Plugins[idx] *)

\* A mutation of StatInstallPath: the plugin is resolved again although
\* its install path exists.
StatInstallPathAlwaysResolve ==
    /\ pc = "stat"
    /\ LET exists == pluginsDir[currPluginDstPath.name] # Absent
       IN /\ trace' = Append(trace, event("stat", currPluginLocator, exists))
          /\ pc' = "resolve"
    /\ UNCHANGED <<param, pluginsDir, downloadsDir, tgzFile, idx, plugins,
                   pluginErrors, resolved, conflicts, result, previous, stdout, launch>>

\* os.Stat(currPluginDstPath); os.IsNotExist(err)
StatInstallPath ==
    /\ pc = "stat"
    /\ LET exists == pluginsDir[currPluginDstPath.name] # Absent
       IN /\ trace' = Append(trace, event("stat", currPluginLocator, exists))
          /\ pc' = IF exists THEN "checksum" ELSE "resolve"
    /\ UNCHANGED <<param, pluginsDir, downloadsDir, tgzFile, idx, plugins,
                   pluginErrors, resolved, conflicts, result, previous, stdout, launch>>

\* A mutation of candidateResolvers: the default resolvers are left out
\* when the plugin has a custom resolver.
candidateResolversCustomOnly(plugin, defaultResolvers) ==
    IF plugin.Resolver # NoResolver THEN plugin.Resolver ELSE defaultResolvers

\* The resolvers tried for a plugin: its custom resolver when it has one,
\* then the default resolvers in the order of the configuration.
candidateResolvers(plugin, defaultResolvers) ==
    plugin.Resolver \o defaultResolvers

\* The progress lines "Getting package from {url}..." of the first k
\* candidates, in order.
progressLines(candidates, k, l) ==
    [i \in 1..k |-> renderURL(candidates[i], l, CurrentOSArch)]

\* The retrievals of the first k candidates: all fail but the k-th, which
\* delivers the archive when delivered holds.
retrievals(k, l, delivered) ==
    [i \in 1..k |-> event("get", l, delivered /\ i = k)]

\* resolvePluginTGZ: tries the candidates in order and retrieves the
\* archive into the downloads directory from the first that delivers it,
\* or fails when none does.
ResolvePluginTGZ ==
    /\ pc = "resolve"
    /\ LET candidates == candidateResolvers(currPlugin, param.DefaultResolvers)
       IN \/ /\ stdout' = stdout \o progressLines(candidates, Len(candidates),
                                                  currPluginLocator)
             /\ trace' = trace \o retrievals(Len(candidates), currPluginLocator, FALSE)
                                \o <<event("fetch", currPluginLocator, FALSE)>>
             /\ RecordError(pluginError(currPluginLocator, "no resolver could retrieve",
                                        "", tgzDstPath, NoDigest, NoDigest))
             /\ UNCHANGED downloadsDir
          \/ \E k \in 1..Len(candidates), archive \in Archives :
                /\ stdout' = stdout \o progressLines(candidates, k, currPluginLocator)
                /\ trace' = trace \o retrievals(k, currPluginLocator, TRUE)
                                   \o <<event("fetch", currPluginLocator, TRUE)>>
                /\ downloadsDir' = downloadsDir \cup {tgzDstPath.name}
                /\ tgzFile' = archive
                /\ pc' = "extract"
                /\ UNCHANGED <<idx, pluginErrors>>
    /\ UNCHANGED <<param, pluginsDir, plugins, resolved, conflicts, result, previous,
                   launch>>

extractError(cause, path) ==
    pluginError(currPluginLocator,
                "failed to extract plugin from archive into destination",
                cause, path, NoDigest, NoDigest)

\* A mutation of closureSteps: the install file is left open.
closureStepsNoClose(l, openOk, copyOk, closeOk) ==
    <<event("create", l, TRUE), event("open", l, openOk)>>
        \o (IF openOk THEN <<event("copy", l, copyOk)>> ELSE <<>>)

\* The file operations of the closure once the install file is created:
\* os.Open of the archive, copyPluginTGZContent when it opened, and the
\* deferred pluginFile.Close.  The archive handle is given no Close.
closureSteps(l, openOk, copyOk, closeOk) ==
    <<event("create", l, TRUE), event("open", l, openOk)>>
        \o (IF openOk THEN <<event("copy", l, copyOk)>> ELSE <<>>)
        \o <<event("close", l, closeOk)>>

\* The extraction closure returned an error after the install file was
\* created: the file stays, holding what was written.
ExtractFailed(steps, written, cause, path) ==
    /\ pluginsDir' = [pluginsDir EXCEPT ![currPluginDstPath.name] = written]
    /\ trace' = trace \o steps \o <<event("unpack", currPluginLocator, FALSE)>>
    /\ RecordError(extractError(cause, path))

\* The closure of lines 112-132: create and truncate the install file, open
\* the archive, copy its single entry, close the install file.
ExtractPlugin ==
    /\ pc = "extract"
    /\ LET archive == tgzFile
       IN \/ \* os.OpenFile fails: nothing is created
             /\ trace' = trace \o <<event("create", currPluginLocator, FALSE),
                                     event("unpack", currPluginLocator, FALSE)>>
             /\ RecordError(extractError("failed to create file", currPluginDstPath))
             /\ UNCHANGED pluginsDir
          \/ \* os.Open of the archive fails
             \E closed \in BOOLEAN :
                LET steps == closureSteps(currPluginLocator, FALSE, FALSE, closed)
                IN IF closed
                   THEN ExtractFailed(steps, Stub, "failed to open for reading", tgzDstPath)
                   ELSE ExtractFailed(steps, Stub, "failed to close file", currPluginDstPath)
          \/ \* copyPluginTGZContent fails: invalid archive or a failed write
             \E closed \in BOOLEAN :
                LET steps == closureSteps(currPluginLocator, TRUE, FALSE, closed)
                IN IF closed
                   THEN ExtractFailed(steps, Stub, "failed to copy", tgzDstPath)
                   ELSE ExtractFailed(steps, Stub, "failed to close file", currPluginDstPath)
          \/ \* the entry was copied, pluginFile.Close fails
             /\ archive # InvalidArchive
             /\ ExtractFailed(closureSteps(currPluginLocator, TRUE, TRUE, FALSE),
                              archive, "failed to close file", currPluginDstPath)
          \/ \* success
             /\ archive # InvalidArchive
             /\ pluginsDir' = [pluginsDir EXCEPT ![currPluginDstPath.name] = archive]
             /\ trace' = trace \o closureSteps(currPluginLocator, TRUE, TRUE, TRUE)
                                \o <<event("unpack", currPluginLocator, TRUE)>>
             /\ pc' = "checksum"
             /\ UNCHANGED <<idx, pluginErrors, tgzFile>>
    /\ UNCHANGED <<param, downloadsDir, plugins, resolved, conflicts, result, previous, stdout, launch>>

\* sha256ChecksumFile(path): the digest of the file, or an error when the
\* file cannot be read.
sha256ChecksumFile(content) ==
    IF content = Absent
    THEN [ok |-> FALSE, sum |-> NoDigest]
    ELSE [ok |-> TRUE, sum |-> sha256Hex(content)]

\* A mutation of ChecksumMismatch: any digest passes.
ChecksumMismatchNever(got, want) == FALSE

\* gotChecksum != wantChecksum
ChecksumMismatch(got, want) == got # want

\* Lines 138-148: the checksum of the install file against the configured
\* one, when one is configured for osArch.
VerifyChecksum ==
    /\ pc = "checksum"
    /\ IF CurrentOSArch \in DOMAIN currPlugin.Checksums
       THEN LET wantChecksum == currPlugin.Checksums[CurrentOSArch]
                got == sha256ChecksumFile(pluginsDir[currPluginDstPath.name])
            IN IF ~got.ok
               THEN /\ trace' = Append(trace, event("checksum", currPluginLocator, FALSE))
                    /\ RecordError(pluginError(currPluginLocator,
                            "failed to compute checksum for plugin", "",
                            currPluginDstPath, NoDigest, NoDigest))
               ELSE IF ChecksumMismatch(got.sum, wantChecksum)
               THEN /\ trace' = Append(trace, event("checksum", currPluginLocator, FALSE))
                    /\ RecordError(pluginError(currPluginLocator,
                            "failed to verify checksum for", "",
                            currPluginDstPath, wantChecksum, got.sum))
               ELSE /\ trace' = Append(trace, event("checksum", currPluginLocator, TRUE))
                    /\ pc' = "info"
                    /\ UNCHANGED <<idx, pluginErrors, tgzFile>>
       ELSE /\ pc' = "info"
            /\ UNCHANGED <<idx, pluginErrors, trace, tgzFile>>
    /\ UNCHANGED <<param, pluginsDir, downloadsDir, plugins, resolved, conflicts,
                   result, previous, stdout, launch>>

\* Lines 150-155: the info probe of the install file.
ProbePluginInfo ==
    /\ pc = "info"
    /\ LET probe == InfoFromPlugin(pluginsDir[pluginPath(PluginsDirName, currPluginLocator).name])
       IN IF ~probe.ok
          THEN /\ trace' = Append(trace, event("info", currPluginLocator, FALSE))
               /\ RecordError(pluginError(currPluginLocator,
                       "failed to get plugin info for plugin", "",
                       NoPath, NoDigest, NoDigest))
               /\ UNCHANGED plugins
          ELSE /\ trace' = Append(trace, event("info", currPluginLocator, TRUE))
               /\ plugins' = MapPut(plugins, currPluginLocator, probe.info)
               /\ NextPlugin
               /\ UNCHANGED pluginErrors
    /\ UNCHANGED <<param, pluginsDir, downloadsDir, resolved, conflicts, result, previous, stdout, launch>>

----------------------------------------------------------------------------
(* resolvePlugins: after the loop *)

\* len(pluginErrors) == 1 ? "plugin" : "plugins"
pluginOrPlugins(n) == IF n = 1 THEN "plugin" ELSE "plugins"

\* The summary error of lines 162-177 for the keys of pluginErrors in the
\* order sortedKeys: "failed to resolve N plugin(s):" and one line per key.
resolveSummary(errs, sortedKeys) ==
    [kind |-> "resolve",
     n |-> Cardinality(DOMAIN errs),
     noun |-> pluginOrPlugins(Cardinality(DOMAIN errs)),
     indent |-> indentSpaces,
     lines |-> [i \in 1..Len(sortedKeys) |-> errs[sortedKeys[i]]]]

\* A mutation of ResolvePluginsReturn: the plugins that resolved are
\* returned whatever errors were collected.
ResolvePluginsReturnPartial ==
    /\ pc = "summarize"
    /\ resolved' = [nil |-> FALSE, m |-> plugins, err |-> NoError]
    /\ pc' = "compat"
    /\ UNCHANGED <<param, pluginsDir, downloadsDir, tgzFile, idx, plugins,
                   pluginErrors, conflicts, trace, result, previous, stdout, launch>>

\* Lines 158-177 and the caller's lines 60-63: resolvePlugins returns the
\* map, or nil and the summary error, which LoadPluginsTasks returns.
ResolvePluginsReturn ==
    /\ pc = "summarize"
    /\ IF DOMAIN pluginErrors = {}
       THEN /\ resolved' = [nil |-> FALSE, m |-> plugins, err |-> NoError]
            /\ pc' = "compat"
            /\ UNCHANGED result
       ELSE \E keys \in Enumerations(DOMAIN pluginErrors) :
               LET err == resolveSummary(pluginErrors, sortLocators(keys))
               IN /\ resolved' = [nil |-> TRUE, m |-> EmptyMap, err |-> err]
                  /\ result' = [status |-> "error", tasks |-> <<>>, err |-> err]
                  /\ pc' = "done"
    /\ UNCHANGED <<param, pluginsDir, downloadsDir, tgzFile, idx, plugins,
                   pluginErrors, conflicts, trace, previous, stdout, launch>>

----------------------------------------------------------------------------
(* verifyPluginCompatibility *)

RECURSIVE SelectIn(_, _)
\* The elements of the sequence s that are in the set S, in order.
SelectIn(s, S) ==
    IF s = <<>> THEN <<>>
    ELSE IF Head(s) \in S THEN <<Head(s)>> \o SelectIn(Tail(s), S)
    ELSE SelectIn(Tail(s), S)

\* Lines 233-251: the sorted task names of plugin that other provides too.
commonTasks(plugin, otherPlugin, plugs) ==
    LET currPluginTasks == sortStrings(plugs[plugin].tasks)
        otherPluginTasks == Range(plugs[otherPlugin].tasks)
    IN SelectIn(currPluginTasks, otherPluginTasks)

SamePlugin(a, b) == a.Group = b.Group /\ a.Product = b.Product

conflictError(msg, tasks) == [msg |-> msg, tasks |-> tasks]

\* A mutation of verifySinglePluginCompatibility: only plugins that sort
\* after this one are compared with it.
verifySinglePluginCompatibilityOneSided(plugin, plugs) ==
    LET others == {o \in DOMAIN plugs : LocatorLess(plugin, o)}
        bad == {o \in others :
                   SamePlugin(o, plugin) \/ commonTasks(plugin, o, plugs) # <<>>}
    IN [o \in bad |->
           IF SamePlugin(o, plugin)
           THEN conflictError("different version of the same plugin", <<>>)
           ELSE conflictError("provides conflicting tasks",
                              commonTasks(plugin, o, plugs))]

\* A mutation of verifySinglePluginCompatibility: only the versions of the
\* same plugin are detected.
verifySinglePluginCompatibilityVersionsOnly(plugin, plugs) ==
    [o \in {o \in DOMAIN plugs \ {plugin} : SamePlugin(o, plugin)} |->
        conflictError("different version of the same plugin", <<>>)]

\* A mutation of verifySinglePluginCompatibility: only the task names are
\* compared.
verifySinglePluginCompatibilityTasksOnly(plugin, plugs) ==
    [o \in {o \in DOMAIN plugs \ {plugin} : commonTasks(plugin, o, plugs) # <<>>} |->
        conflictError("provides conflicting tasks", commonTasks(plugin, o, plugs))]

\* verifySinglePluginCompatibility: the map from every other plugin that
\* conflicts with plugin to the error that describes the conflict.
verifySinglePluginCompatibility(plugin, plugs) ==
    LET others == DOMAIN plugs \ {plugin}
        bad == {o \in others :
                   SamePlugin(o, plugin) \/ commonTasks(plugin, o, plugs) # <<>>}
    IN [o \in bad |->
           IF SamePlugin(o, plugin)
           THEN conflictError("different version of the same plugin", <<>>)
           ELSE conflictError("provides conflicting tasks",
                              commonTasks(plugin, o, plugs))]

\* Lines 186-193: the conflicts of every plugin that has any.
pluginConflicts(plugs) ==
    LET conflicting ==
            {p \in DOMAIN plugs :
                DOMAIN verifySinglePluginCompatibility(p, plugs) # {}}
    IN [p \in conflicting |-> verifySinglePluginCompatibility(p, plugs)]

RECURSIVE KeyOrders(_, _)
\* For a map of maps: every choice of an iteration order for each inner
\* map (lines 210-212 range over conflicts[k] once per outer key).
KeyOrders(keys, confl) ==
    IF keys = {} THEN {EmptyMap}
    ELSE LET k == CHOOSE x \in keys : TRUE
         IN {MapPut(f, k, e) : f \in KeyOrders(keys \ {k}, confl),
                               e \in Enumerations(DOMAIN confl[k])}

\* Lines 205-219: "N plugins had compatibility issues:", then per outer key
\* a line with its locator string and one line per inner key with the
\* text of that conflict.
compatibilityError(confl, sortedOuterKeys, innerOrder) ==
    [kind |-> "compat",
     n |-> Cardinality(DOMAIN confl),
     noun |-> "plugins",
     indent |-> indentSpaces,
     lines |-> [i \in 1..Len(sortedOuterKeys) |->
                  LET k == sortedOuterKeys[i]
                      sortedInnerKeys == sortLocators(innerOrder[k])
                  IN [plugin |-> LocatorString(k),
                      errs |-> [j \in 1..Len(sortedInnerKeys) |->
                                   confl[k][sortedInnerKeys[j]]]]]]

\* verifyPluginCompatibility and the caller's lines 64-66.
VerifyPluginCompatibility ==
    /\ pc = "compat"
    /\ conflicts' = pluginConflicts(resolved.m)
    /\ IF DOMAIN conflicts' = {}
       THEN /\ pc' = "tasks"
            /\ UNCHANGED result
       ELSE \E outer \in Enumerations(DOMAIN conflicts') :
            \E innerOrder \in KeyOrders(DOMAIN conflicts', conflicts') :
               /\ result' = [status |-> "error", tasks |-> <<>>,
                             err |-> compatibilityError(conflicts', sortLocators(outer),
                                                        innerOrder)]
               /\ pc' = "done"
    /\ trace' = Append(trace, event("compat", NoLocator, DOMAIN conflicts' = {}))
    /\ UNCHANGED <<param, pluginsDir, downloadsDir, tgzFile, idx, plugins,
                   pluginErrors, resolved, previous, stdout, launch>>

----------------------------------------------------------------------------
(* LoadPluginsTasks: the task list *)

RECURSIVE tasksOf(_, _)
\* Lines 74-78: the tasks of the plugins in the order of sortedLocators.
tasksOf(sortedLocators, plugs) ==
    IF sortedLocators = <<>> THEN <<>>
    ELSE Tasks(plugs[Head(sortedLocators)],
               pluginPath(PluginsDirName, Head(sortedLocators)))
         \o tasksOf(Tail(sortedLocators), plugs)

\* Lines 68-79.
BuildTasks ==
    /\ pc = "tasks"
    /\ \E keys \in Enumerations(DOMAIN resolved.m) :
          result' = [status |-> "ok",
                     tasks |-> tasksOf(sortLocators(keys), resolved.m),
                     err |-> NoError]
    /\ pc' = "done"
    /\ UNCHANGED <<param, pluginsDir, downloadsDir, tgzFile, idx, plugins,
                   pluginErrors, resolved, conflicts, trace, previous, stdout, launch>>

----------------------------------------------------------------------------

Next ==
    \/ LoadPluginsTasks
    \/ StatInstallPath
    \/ ResolvePluginTGZ
    \/ ExtractPlugin
    \/ VerifyChecksum
    \/ ProbePluginInfo
    \/ ResolvePluginsReturn
    \/ VerifyPluginCompatibility
    \/ BuildTasks

Spec == Init /\ [][Next]_vars

\* The loads of the single-plugin configurations of ResolverParams.
SpecResolvers == InitResolvers /\ [][Next]_vars

----------------------------------------------------------------------------
(* The launcher: invoking the tasks of a plugin *)

\* An argument of a command line: the segments of a path, or the single
\* segment of any other word.
Word(w) == <<w>>

\* {projectDir}/godel/config/{fileName}
ConfigPath(projectDir, fileName) == <<projectDir, "godel", "config", fileName>>

\* A global flag a task does not declare.
Undeclared == ""

\* The global flag options a task may declare: each of the four flags by
\* the name the plugin expects, or not at all.
GlobalFlagOptions ==
    [debugFlag : {Undeclared, "--debug"},
     projectDirFlag : {Undeclared, "--project-dir"},
     godelConfigFlag : {Undeclared, "--godel-config"},
     configFlag : {Undeclared, "--config"}]

\* verifyOptions.applyFalseArgs: the tokens a task declares for a verify
\* that must not apply changes.
ApplyFalseArgs == {<<>>, <<Word("--verify")>>, <<Word("--check"), Word("--list")>>}

\* pluginapi.MustNewTaskInfo of the echo plugin, for every choice of its
\* global flag options and verify options.
TaskInfos ==
    [Name : {"echo-task"}, Command : {"echo"}, configFileName : {"echo.yml"},
     globalFlagOptions : GlobalFlagOptions, applyFalseArgs : ApplyFalseArgs]

\* The task of an info document bound to the executable of its plugin.
PluginTasks ==
    {[info |-> ti, exec |-> pluginPath(PluginsDirName, l)] :
        ti \in TaskInfos, l \in Locators}

\* The global parameters of the launcher.
GlobalConfigs == [projectDir : {"project"}, debug : BOOLEAN]

\* The arguments a user gives after the task name.
TailArgs ==
    UNION {[1..n -> {Word("foo"), Word("--bar"), Word("baz")}] : n \in 0..MaxTailArgs}

\* The built-in tasks of verify, in the order in which verify runs them.
BuiltinVerifyTasks ==
    <<"format", "generate", "imports", "license", "check", "compiles",
      "deadcode", "errcheck", "extimport", "golint", "govet", "importalias",
      "ineffassign", "nobadfuncs", "novendor", "outparamcheck", "unconvert",
      "varcheck">>

\* A mutation of globalFlagArgs: the config flag comes before the project
\* directory flag.
globalFlagArgsConfigFirst(info, global) ==
    LET o == info.globalFlagOptions
    IN (IF o.debugFlag # Undeclared /\ global.debug
        THEN <<Word(o.debugFlag)>> ELSE <<>>)
       \o (IF o.configFlag # Undeclared
           THEN <<Word(o.configFlag),
                  ConfigPath(global.projectDir, info.configFileName)>> ELSE <<>>)
       \o (IF o.godelConfigFlag # Undeclared
           THEN <<Word(o.godelConfigFlag),
                  ConfigPath(global.projectDir, "godel.yml")>> ELSE <<>>)
       \o (IF o.projectDirFlag # Undeclared
           THEN <<Word(o.projectDirFlag), Word(global.projectDir)>> ELSE <<>>)

\* The arguments for the global flags a task declares: the debug flag
\* alone when debug is active, then each other flag with its value.
globalFlagArgs(info, global) ==
    LET o == info.globalFlagOptions
    IN (IF o.debugFlag # Undeclared /\ global.debug
        THEN <<Word(o.debugFlag)>> ELSE <<>>)
       \o (IF o.projectDirFlag # Undeclared
           THEN <<Word(o.projectDirFlag), Word(global.projectDir)>> ELSE <<>>)
       \o (IF o.godelConfigFlag # Undeclared
           THEN <<Word(o.godelConfigFlag),
                  ConfigPath(global.projectDir, "godel.yml")>> ELSE <<>>)
       \o (IF o.configFlag # Undeclared
           THEN <<Word(o.configFlag),
                  ConfigPath(global.projectDir, info.configFileName)>> ELSE <<>>)

\* The arguments of a task invoked by its name: global flags, command,
\* then what the user gave after the task name.
taskArgs(info, global, tail) ==
    globalFlagArgs(info, global) \o <<Word(info.Command)>> \o tail

\* A mutation of verifyArgs: the applyFalseArgs are appended whatever
\* apply is.
verifyArgsAlwaysApplyFalse(info, global, apply) ==
    globalFlagArgs(info, global) \o <<Word(info.Command)>> \o info.applyFalseArgs

\* The arguments of a task run by verify: global flags and command, and
\* the applyFalseArgs of the task when verify is run with apply=false.
verifyArgs(info, global, apply) ==
    globalFlagArgs(info, global) \o <<Word(info.Command)>>
        \o (IF apply THEN <<>> ELSE info.applyFalseArgs)

\* One process the launcher ran ("Running {name}..." in verify).
run(name, builtin, exec, args) ==
    [name |-> name, builtin |-> builtin, exec |-> exec, args |-> args]

\* ./godelw {task} {tail...}
RunTask ==
    /\ launch.mode = "none"
    /\ \E task \in PluginTasks, global \in GlobalConfigs, tail \in TailArgs :
        /\ launch' = [mode |-> "task", tasks |-> <<task>>, global |-> global,
                      tail |-> tail, apply |-> TRUE,
                      runs |-> <<run(task.info.Name, FALSE, task.exec,
                                     taskArgs(task.info, global, tail))>>]
        /\ UNCHANGED <<param, pluginsDir, downloadsDir, tgzFile, pc, idx, plugins,
                       pluginErrors, resolved, conflicts, trace, result, previous,
                       stdout>>

\* ./godelw verify --apply={apply} {tail...}: the built-in tasks, then the
\* tasks of the plugins in the order of the task list.
RunVerify ==
    /\ launch.mode = "none"
    /\ \E first, second \in PluginTasks, single \in BOOLEAN,
          global \in GlobalConfigs, apply \in BOOLEAN,
          tail \in {<<>>, <<Word("foo")>>} :
        LET tasks == IF single THEN <<first>> ELSE <<first, second>>
        IN /\ single => second = first
           /\ launch' =
                 [mode |-> "verify", tasks |-> tasks, global |-> global,
                  tail |-> tail, apply |-> apply,
                  runs |-> [i \in 1..Len(BuiltinVerifyTasks) |->
                               run(BuiltinVerifyTasks[i], TRUE, NoPath, <<>>)]
                           \o [i \in 1..Len(tasks) |->
                                  run(tasks[i].info.Name, FALSE, tasks[i].exec,
                                      verifyArgs(tasks[i].info, global, apply))]]
           /\ UNCHANGED <<param, pluginsDir, downloadsDir, tgzFile, pc, idx, plugins,
                          pluginErrors, resolved, conflicts, trace, result, previous,
                          stdout>>

\* The launcher after its plugins are loaded, before it invokes what its
\* command line names: no plugin is declared here, the tasks are drawn from
\* PluginTasks.
InitLaunch ==
    /\ param = [DefaultResolvers |-> <<>>, Plugins |-> <<>>]
    /\ pluginsDir = [n \in InstallNames |-> Absent]
    /\ downloadsDir = {}
    /\ tgzFile = NoArchive
    /\ pc = "idle"
    /\ idx = 0
    /\ plugins = EmptyMap
    /\ pluginErrors = EmptyMap
    /\ resolved = NilPlugins
    /\ conflicts = EmptyMap
    /\ trace = <<>>
    /\ result = NoResult
    /\ previous = NoPrevious
    /\ stdout = <<>>
    /\ launch = NoLaunch

NextLaunch == RunTask \/ RunVerify

SpecLaunch == InitLaunch /\ [][NextLaunch]_vars

----------------------------------------------------------------------------
(* Vocabulary of the properties *)

\* LoadPluginsTasks has returned.
Returned == pc = "done"

\* resolvePlugins has returned.
ResolveReturned == pc \in {"compat", "tasks", "done"}

DeclaredLocators == {param.Plugins[i].locator : i \in 1..Len(param.Plugins)}

ParamOf(l) == CHOOSE c \in Range(param.Plugins) : c.locator = l

HasChecksum(l) == CurrentOSArch \in DOMAIN ParamOf(l).Checksums

InstalledFile(l) == pluginsDir[pluginFileName(l)]

\* The running load performed op for l, with outcome ok.
Did(op, l, ok) ==
    \E i \in 1..Len(trace) :
        trace[i].op = op /\ trace[i].locator = l /\ trace[i].ok = ok

Attempted(op, l) == Did(op, l, TRUE) \/ Did(op, l, FALSE)

\* How often the running load performed op for l.
Count(op, l) ==
    Cardinality({i \in 1..Len(trace) : trace[i].op = op /\ trace[i].locator = l})

\* The install file of l was there for the checksum step: found by the
\* installed check, or unpacked by this load.
ReachedChecksum(l) == Did("stat", l, TRUE) \/ Did("unpack", l, TRUE)

\* The plugins of the running load for which a step after the installed
\* check failed.
FailedPlugins ==
    {l \in DeclaredLocators :
        \E op \in {"fetch", "unpack", "checksum", "info"} : Did(op, l, FALSE)}

TaskNamesOf(l) == Range(DeclaredTaskNames(InstalledFile(l)))

StrictlySortedByLocatorString(locs) ==
    \A i, j \in 1..Len(locs) :
        i < j => StrLess(LocatorString(locs[i]), LocatorString(locs[j]))

ConflictsOf(p) == IF p \in DOMAIN conflicts THEN DOMAIN conflicts[p] ELSE {}

----------------------------------------------------------------------------
(* C1 *)

\* C1: when the unpacking of a plugin failed, no file is at that plugin's
\* install path once the load has returned.
C1_NoFileAfterFailedUnpack ==
    Returned =>
        \A l \in DeclaredLocators :
            Did("unpack", l, FALSE) => InstalledFile(l) = Absent

----------------------------------------------------------------------------
(* C2 *)

\* C2 as stated: a load that follows a successful load fetches nothing,
\* unpacks nothing, computes no checksum, and returns the same task list.
C2_RepeatedLoadDoesNoWork ==
    (Returned /\ previous.ok) =>
        /\ \A l \in DeclaredLocators :
              /\ ~Attempted("fetch", l)
              /\ ~Attempted("unpack", l)
              /\ ~Attempted("checksum", l)
        /\ result.status = "ok"
        /\ result.tasks = previous.tasks

\* C2 amended: a load that follows a successful load fetches nothing and
\* unpacks nothing; it checks the existence of every install path once,
\* computes the checksum again of exactly the plugins that have one
\* configured for the current OSArch, and returns the same task list.
C2_RepeatedLoadIdempotent ==
    (Returned /\ previous.ok) =>
        /\ \A l \in DeclaredLocators :
              /\ ~Attempted("fetch", l)
              /\ ~Attempted("unpack", l)
              /\ Did("stat", l, TRUE) /\ Count("stat", l) = 1
              /\ Count("checksum", l) = (IF HasChecksum(l) THEN 1 ELSE 0)
        /\ result.status = "ok"
        /\ result.tasks = previous.tasks

\* A successful load of a plugin with a configured checksum was repeated.
C2_Witness ==
    /\ Returned /\ previous.ok
    /\ result.tasks # <<>>
    /\ \E l \in DeclaredLocators : HasChecksum(l) /\ Did("checksum", l, TRUE)

----------------------------------------------------------------------------
(* C3 *)

\* C3: for every plugin with a checksum configured for the current OSArch
\* whose install file (found installed or unpacked by this load) has
\* another digest, the load returns the resolve summary with a
\* checksum-verification error for that install path carrying the wanted
\* and the actual digest, and resolvePlugins returns no plugin info.
C3_ChecksumMismatchReported ==
    Returned =>
        \A l \in DeclaredLocators :
            (/\ HasChecksum(l)
             /\ ReachedChecksum(l)
             /\ sha256Hex(InstalledFile(l)) # ParamOf(l).Checksums[CurrentOSArch])
            =>
            /\ resolved.nil /\ resolved.m = EmptyMap
            /\ result.status = "error" /\ result.tasks = <<>>
            /\ result.err.kind = "resolve"
            /\ \E i \in 1..Len(result.err.lines) :
                  LET e == result.err.lines[i]
                  IN /\ e.msg = "failed to verify checksum for"
                     /\ e.path = PathJoin(PluginsDirName, pluginFileName(l))
                     /\ e.want = ParamOf(l).Checksums[CurrentOSArch]
                     /\ e.got = sha256Hex(InstalledFile(l))

\* A load returned after a freshly unpacked plugin failed its checksum
\* while another plugin was resolved.
C3_Witness ==
    /\ Returned
    /\ \E l \in DeclaredLocators :
          /\ HasChecksum(l) /\ Did("unpack", l, TRUE) /\ Did("checksum", l, FALSE)
          /\ sha256Hex(InstalledFile(l)) # ParamOf(l).Checksums[CurrentOSArch]
    /\ \E l \in DeclaredLocators : Did("info", l, TRUE)

----------------------------------------------------------------------------
(* C4 *)

\* C4: a task list returned without error holds no two tasks of the same
\* name, two tasks of one plugin included.
C4_TaskNamesUnique ==
    (Returned /\ result.status = "ok") =>
        \A i, j \in 1..Len(result.tasks) :
            i # j => result.tasks[i].Name # result.tasks[j].Name

----------------------------------------------------------------------------
(* C5 *)

TwoVersionsDeclared ==
    \E p, q \in DeclaredLocators : p # q /\ SamePlugin(p, q)

\* Each of two versions of a plugin has a "different version of the same
\* plugin" entry for the other, and the error text lists both.
VersionConflictReported(p, q) ==
    /\ result.err.kind = "compat"
    /\ p \in DOMAIN conflicts /\ q \in DOMAIN conflicts[p]
    /\ conflicts[p][q].msg = "different version of the same plugin"
    /\ \E i \in 1..Len(result.err.lines) :
          /\ result.err.lines[i].plugin = LocatorString(p)
          /\ conflicts[p][q] \in Range(result.err.lines[i].errs)

\* C5 as stated: a load that returns without error resolved no two plugins
\* of the same (group, product); when two declared plugins are versions of
\* the same plugin the load fails with a compatibility error that lists
\* each with an entry for the other, and returns no tasks.
C5_TwoVersionsCompatibilityError ==
    Returned =>
        /\ result.status = "ok" =>
              \A p, q \in DOMAIN resolved.m : p # q => ~SamePlugin(p, q)
        /\ \A p, q \in DeclaredLocators :
              (p # q /\ SamePlugin(p, q)) =>
                  /\ result.status = "error" /\ result.tasks = <<>>
                  /\ VersionConflictReported(p, q)

\* C5 amended: a load that returns without error resolved no two plugins
\* of the same (group, product); when two declared plugins are versions of
\* the same plugin the load fails and returns no tasks, and when moreover
\* every declared plugin resolved, it fails with a compatibility error
\* that lists each of the two with an entry for the other.
C5_TwoVersionsRejected ==
    Returned =>
        /\ result.status = "ok" =>
              \A p, q \in DOMAIN resolved.m : p # q => ~SamePlugin(p, q)
        /\ \A p, q \in DeclaredLocators :
              (p # q /\ SamePlugin(p, q)) =>
                  /\ result.status = "error" /\ result.tasks = <<>>
                  /\ FailedPlugins = {} => VersionConflictReported(p, q)

\* Two versions of a plugin with disjoint tasks were both resolved and
\* the load returned.
C5_Witness ==
    /\ Returned
    /\ \E p, q \in DOMAIN resolved.m :
          /\ p # q /\ SamePlugin(p, q)
          /\ TaskNamesOf(p) \cap TaskNamesOf(q) = {}
          /\ VersionConflictReported(p, q)

----------------------------------------------------------------------------
(* C6 *)

\* The steps the loop body owes to plugin l, each decided by the outcome
\* of the steps of l before it.
SweptInFull(l) ==
    /\ Attempted("stat", l)
    /\ Did("stat", l, FALSE) => Attempted("fetch", l)
    /\ Did("fetch", l, TRUE) => Attempted("unpack", l)
    /\ (ReachedChecksum(l) /\ HasChecksum(l)) => Attempted("checksum", l)
    /\ (ReachedChecksum(l) /\ (HasChecksum(l) => Did("checksum", l, TRUE)))
          => Attempted("info", l)
    /\ l \in DOMAIN plugins \/ l \in DOMAIN pluginErrors

\* C6: when the sweep of resolvePlugins is over, every declared plugin has
\* been attempted (installed check, and every later step its own earlier
\* steps allow), whatever happened to the plugins declared before it.
C6_SweepNeverShortCircuits ==
    (pc = "summarize" \/ ResolveReturned) =>
        \A l \in DeclaredLocators : SweptInFull(l)

\* The sweep is over, the first declared plugin failed and a plugin
\* declared after it went through to the info probe.
C6_Witness ==
    /\ pc = "summarize"
    /\ Len(param.Plugins) > 1
    /\ param.Plugins[1].locator \in DOMAIN pluginErrors
    /\ \E i \in 2..Len(param.Plugins) : Did("info", param.Plugins[i].locator, TRUE)

----------------------------------------------------------------------------
(* C7 *)

\* C7: when at least one plugin failed, resolvePlugins returns no plugin
\* map and a summary that states the number N of failed plugins, says
\* "plugin" for N = 1 and "plugins" otherwise, and lists one error per
\* failed plugin, ordered by the locator string.
C7_ResolveSummary ==
    (ResolveReturned /\ FailedPlugins # {}) =>
        /\ resolved.nil /\ resolved.m = EmptyMap
        /\ resolved.err.kind = "resolve"
        /\ resolved.err.n = Cardinality(FailedPlugins)
        /\ resolved.err.noun = (IF Cardinality(FailedPlugins) = 1
                                THEN "plugin" ELSE "plugins")
        /\ Len(resolved.err.lines) = Cardinality(FailedPlugins)
        /\ {resolved.err.lines[i].locator : i \in 1..Len(resolved.err.lines)}
              = FailedPlugins
        /\ StrictlySortedByLocatorString(
              [i \in 1..Len(resolved.err.lines) |-> resolved.err.lines[i].locator])
        /\ \A i \in 1..Len(resolved.err.lines) :
              resolved.err.lines[i] = pluginErrors[resolved.err.lines[i].locator]

\* Two plugins failed, declared in the reverse of the locator order.
C7_Witness ==
    /\ ResolveReturned
    /\ Cardinality(FailedPlugins) = 2
    /\ Len(param.Plugins) = 2
    /\ StrLess(LocatorString(param.Plugins[2].locator),
               LocatorString(param.Plugins[1].locator))

----------------------------------------------------------------------------
(* C8 *)

\* The declared locators in ascending order of their locator string.
DeclaredInLocatorOrder ==
    CHOOSE e \in Enumerations(DeclaredLocators) : StrictlySortedByLocatorString(e)

RECURSIVE ExpectedTasks(_)
\* For the locators of locs in order: the tasks that the installed file of
\* each declares, in the order of its info document, each bound to
\* pluginsDir/group-product-version of that locator.
ExpectedTasks(locs) ==
    IF locs = <<>> THEN <<>>
    ELSE LET l == Head(locs)
             names == DeclaredTaskNames(InstalledFile(l))
         IN [k \in 1..Len(names) |->
                [Name |-> names[k],
                 exec |-> [dir |-> PluginsDirName,
                           name |-> l.Group \o <<"-">> \o l.Product \o <<"-">> \o l.Version]]]
            \o ExpectedTasks(Tail(locs))

\* C8: a successful load returns the tasks of all plugins concatenated,
\* the plugins in the order of their locator strings and the tasks of one
\* plugin in the order it declared them, each bound to the executable
\* pluginsDir/group-product-version of its plugin.
C8_TasksInLocatorOrder ==
    (Returned /\ result.status = "ok") =>
        result.tasks = ExpectedTasks(DeclaredInLocatorOrder)

\* A successful load of two plugins declared in the reverse of the locator
\* order, one of them declaring its two tasks in descending order.
C8_Witness ==
    /\ Returned /\ result.status = "ok"
    /\ Len(param.Plugins) = 2
    /\ StrLess(LocatorString(param.Plugins[2].locator),
               LocatorString(param.Plugins[1].locator))
    /\ Len(result.tasks) = 3
    /\ \E i \in 1..2 : StrLess(result.tasks[i + 1].Name, result.tasks[i].Name)
                          /\ result.tasks[i + 1].exec = result.tasks[i].exec

----------------------------------------------------------------------------
(* C9 *)

\* C9: once the compatibility check has run, Q is in P's conflict list
\* exactly when P is in Q's, and a conflict over task names names on both
\* sides the task names that P and Q have in common.
C9_ConflictsSymmetric ==
    (pc \in {"tasks", "done"} /\ ~resolved.nil) =>
        \A p, q \in DOMAIN resolved.m :
            /\ q \in ConflictsOf(p) <=> p \in ConflictsOf(q)
            /\ (q \in ConflictsOf(p)
                  /\ conflicts[p][q].msg = "provides conflicting tasks") =>
                  /\ conflicts[q][p].msg = "provides conflicting tasks"
                  /\ Range(conflicts[p][q].tasks) = Range(conflicts[q][p].tasks)
                  /\ Range(conflicts[p][q].tasks)
                        = Range(resolved.m[p].tasks) \cap Range(resolved.m[q].tasks)

\* Two plugins that share one of two task names were found in conflict.
C9_Witness ==
    /\ Returned
    /\ \E p, q \in DOMAIN conflicts :
          /\ q \in DOMAIN conflicts[p]
          /\ conflicts[p][q].tasks # <<>>
          /\ Range(resolved.m[p].tasks) # Range(resolved.m[q].tasks)

----------------------------------------------------------------------------
(* C10 *)

Compatible(plugs) ==
    \A p, q \in DOMAIN plugs :
        p # q => /\ ~SamePlugin(p, q)
                 /\ Range(plugs[p].tasks) \cap Range(plugs[q].tasks) = {}

\* C10: for a resolved plugin set, when the plugins have pairwise distinct
\* (group, product) and pairwise disjoint task names the load returns the
\* tasks of every plugin without error; when some pair shares (group,
\* product) or a task name the load fails and returns no tasks.
C10_NoFalseConflicts ==
    (Returned /\ ~resolved.nil) =>
        IF Compatible(resolved.m)
        THEN /\ result.status = "ok" /\ conflicts = EmptyMap
             /\ \A p \in DOMAIN resolved.m :
                   \A k \in 1..Len(resolved.m[p].tasks) :
                       \E i \in 1..Len(result.tasks) :
                           /\ result.tasks[i].Name = resolved.m[p].tasks[k]
                           /\ result.tasks[i].exec = pluginPath(PluginsDirName, p)
        ELSE /\ result.status = "error" /\ result.tasks = <<>>
             /\ result.err.kind = "compat"

\* Two plugins without a conflict were loaded.
C10_Witness ==
    /\ Returned /\ ~resolved.nil
    /\ Cardinality(DOMAIN resolved.m) = 2
    /\ Compatible(resolved.m)
    /\ result.status = "ok"


----------------------------------------------------------------------------
(* The candidates of a retrieval *)

\* The outcomes of the candidates the running load tried for l, in order.
RetrievalsOf(l) ==
    LET isGet(e) == e.op = "get" /\ e.locator = l
    IN SelectSeq(trace, isGet)

\* The progress lines the running load wrote for l, in order.
ProgressOf(l) ==
    LET isOf(u) == u.locator = l
    IN SelectSeq(stdout, isOf)

\* The URLs a retrieval for l is to try: that of the custom resolver when
\* one is configured, then those of the default resolvers as declared.
CandidateURLs(l) ==
    LET own == ParamOf(l).Resolver
        defaults == param.DefaultResolvers
    IN [i \in 1..(Len(own) + Len(defaults)) |->
           renderURL(IF i <= Len(own) THEN CustomResolver
                     ELSE defaults[i - Len(own)], l, CurrentOSArch)]

----------------------------------------------------------------------------
(* The letter case of a configured digest *)

\* C17: a configured digest that equals the digest of the install file up
\* to the case of its letters passes the checksum step, and the plugin goes
\* on to the info probe.
C17_ChecksumCaseInsensitive ==
    \A l \in DeclaredLocators :
        (/\ HasChecksum(l)
         /\ Attempted("checksum", l)
         /\ EqualFold(sha256Hex(InstalledFile(l)), ParamOf(l).Checksums[CurrentOSArch]))
        =>
        /\ Did("checksum", l, TRUE)
        /\ ~Did("checksum", l, FALSE)
        /\ l \notin DOMAIN pluginErrors


----------------------------------------------------------------------------
(* Installed files are never modified *)

\* C14: once a file is at an install path no step of any load writes,
\* truncates, replaces or deletes it; a plugin whose install path exists is
\* neither fetched nor unpacked; a checksum mismatch or a failed info probe
\* leaves the file as it was.
C14_InstalledFileNeverModified ==
    [][/\ \A n \in InstallNames :
             pluginsDir[n] # Absent => pluginsDir'[n] = pluginsDir[n]
       /\ \A l \in DeclaredLocators :
             Did("stat", l, TRUE)' =>
                ~Attempted("fetch", l)' /\ ~Attempted("unpack", l)']_vars

\* A load returned after it found an installed executable whose checksum
\* does not match, and the executable is still at its install path.
C14_Witness ==
    /\ Returned
    /\ \E l \in DeclaredLocators :
          /\ Did("stat", l, TRUE)
          /\ Did("checksum", l, FALSE)
          /\ InstalledFile(l) \in Executables

----------------------------------------------------------------------------
(* The order of the steps of one plugin *)

\* Every install file the running load created before position i of the
\* trace was closed before i.
InstallFilesClosedBefore(i) ==
    \A c \in 1..(i - 1) :
        (trace[c].op = "create" /\ trace[c].ok) =>
            \E d \in (c + 1)..(i - 1) :
                trace[d].op = "close" /\ trace[d].locator = trace[c].locator

\* The checksum of l was computed and matched before position i.
ChecksumMatchedBefore(l, i) ==
    \E c \in 1..(i - 1) :
        trace[c].op = "checksum" /\ trace[c].locator = l /\ trace[c].ok

\* C15: for each plugin the install file is closed before its checksum is
\* computed; the info command is invoked only after the checksum, when one
\* is configured, was computed and matched; an executable whose checksum
\* does not match is not probed; a failed close of the install file is
\* recorded as the error of that plugin.
C15_StepsInOrder ==
    /\ \A i \in 1..Len(trace) :
          /\ trace[i].op \in {"checksum", "info"} => InstallFilesClosedBefore(i)
          /\ (trace[i].op = "info" /\ HasChecksum(trace[i].locator)) =>
                ChecksumMatchedBefore(trace[i].locator, i)
    /\ \A l \in DeclaredLocators :
          /\ Did("checksum", l, FALSE) => ~Attempted("info", l)
          /\ Did("close", l, FALSE) =>
                /\ l \in DOMAIN pluginErrors
                /\ pluginErrors[l].cause = "failed to close file"
                /\ ~Attempted("checksum", l) /\ ~Attempted("info", l)

\* A plugin was unpacked by the running load, its install file closed,
\* its checksum matched and its info probed, after the install file of
\* another plugin failed to close.
C15_Witness ==
    \E l, k \in DeclaredLocators :
        /\ Did("close", l, TRUE)
        /\ Did("checksum", l, TRUE)
        /\ Did("info", l, TRUE)
        /\ Did("close", k, FALSE)

----------------------------------------------------------------------------
(* The compatibility check waits for the whole sweep *)

CompatibilityEvaluated == Attempted("compat", NoLocator)

\* C16: the compatibility check is evaluated only after every declared
\* plugin was attempted and none failed; when a plugin failed to resolve
\* LoadPluginsTasks returns the resolve summary, the compatibility check is
\* not evaluated and no conflict is reported.
C16_CompatibilityOnlyWhenAllResolved ==
    /\ CompatibilityEvaluated =>
          /\ \A l \in DeclaredLocators : Attempted("stat", l)
          /\ FailedPlugins = {}
          /\ DOMAIN pluginErrors = {}
          /\ DOMAIN resolved.m = DeclaredLocators
    /\ (Returned /\ FailedPlugins # {}) =>
          /\ ~CompatibilityEvaluated
          /\ conflicts = EmptyMap
          /\ result.status = "error"
          /\ result.err = resolved.err
          /\ result.err.kind = "resolve"

\* Two versions of one plugin are declared, one of them failed to resolve
\* and the other resolved; the load returned.
C16_Witness ==
    /\ Returned
    /\ TwoVersionsDeclared
    /\ \E l, k \in DeclaredLocators :
          /\ SamePlugin(l, k) /\ l # k
          /\ Did("fetch", l, FALSE)
          /\ Did("info", k, TRUE)


----------------------------------------------------------------------------
(* The compatibility error does not depend on map iteration order *)

\* The plugins of plugs that conflict with p: another version of the same
\* plugin, or a plugin with a task of the same name.
PartnersOf(p, plugs) ==
    {q \in DOMAIN plugs \ {p} :
        \/ SamePlugin(p, q)
        \/ Range(plugs[p].tasks) \cap Range(plugs[q].tasks) # {}}

\* The members of S as the sequence in the order of their locator strings.
InLocatorStringOrder(S) ==
    CHOOSE s \in Enumerations(S) : StrictlySortedByLocatorString(s)

NonDecreasing(names) ==
    \A i, j \in 1..Len(names) : i < j => ~StrLess(names[j], names[i])

----------------------------------------------------------------------------
(* Install paths of distinct locators *)

\* C19: the install paths of distinct declared locators differ, so the
\* executable a load unpacked for one declared plugin is never found as the
\* installed executable of another.
C19_InstallPathsDistinct ==
    \A p, q \in DeclaredLocators :
        (p # q /\ Did("unpack", p, TRUE) /\ Did("stat", q, TRUE)) =>
            /\ pluginFileName(p) # pluginFileName(q)
            /\ pluginPath(PluginsDirName, p) # pluginPath(PluginsDirName, q)

----------------------------------------------------------------------------
(* File handles *)

\* The positions of the trace at which a handle was opened by opening and
\* is closed by none of the later operations closing for the same plugin.
OpenHandles(opening, closing) ==
    {i \in 1..Len(trace) :
        /\ trace[i].op = opening
        /\ trace[i].ok
        /\ ~\E j \in 1..Len(trace) :
              j > i /\ trace[j].op = closing /\ trace[j].locator = trace[i].locator}

\* C20: when resolvePlugins has returned, every file handle the sweep
\* opened, the install file and the archive of each plugin, has been
\* closed.
C20_NoOpenHandleAtReturn ==
    ResolveReturned =>
        /\ OpenHandles("create", "close") = {}
        /\ OpenHandles("open", "closeArchive") = {}


----------------------------------------------------------------------------
(* The arguments of an invoked task *)

\* The flags of a task that take a value, with their values, in the order
\* project directory, godel configuration, plugin configuration; those the
\* task does not declare are left out.
ValuedFlagArgs(info, global) ==
    LET o == info.globalFlagOptions
        pairs == <<<<o.projectDirFlag, Word(global.projectDir)>>,
                   <<o.godelConfigFlag, ConfigPath(global.projectDir, "godel.yml")>>,
                   <<o.configFlag, ConfigPath(global.projectDir, info.configFileName)>>>>
        declared == SelectSeq(pairs, LAMBDA pr : pr[1] # Undeclared)
    IN [i \in 1..(2 * Len(declared)) |->
           IF i % 2 = 1 THEN Word(declared[(i + 1) \div 2][1])
           ELSE declared[i \div 2][2]]

\* args holds the valued flags of the task, with the debug flag alone
\* between two of them (or before, or after) exactly when the task declares
\* one and debug is active.
IsGlobalFlagArgs(args, info, global) ==
    LET valued == ValuedFlagArgs(info, global)
        debugFlag == info.globalFlagOptions.debugFlag
    IN IF debugFlag # Undeclared /\ global.debug
       THEN \E k \in 0..(Len(valued) \div 2) :
               args = SubSeq(valued, 1, 2 * k) \o <<Word(debugFlag)>>
                          \o SubSeq(valued, 2 * k + 1, Len(valued))
       ELSE args = valued

\* C11: the arguments of a task invoked by name are, after the executable
\* of its plugin: for each global flag the task declares the flag and its
\* value, in the order project directory, godel configuration, plugin
\* configuration, and the debug flag alone only when debug is active; then
\* the command of the task; then the user's arguments, unchanged.
C11_TaskArguments ==
    launch.mode = "task" =>
        LET task == launch.tasks[1]
            args == launch.runs[1].args
            n == Len(args) - Len(launch.tail) - 1
        IN /\ Len(launch.runs) = 1
           /\ launch.runs[1].exec = task.exec
           /\ n >= 0
           /\ IsGlobalFlagArgs(SubSeq(args, 1, n), task.info, launch.global)
           /\ args[n + 1] = Word(task.info.Command)
           /\ SubSeq(args, n + 2, Len(args)) = launch.tail

\* ./godelw echo-task foo --bar baz for a task that declares all four
\* flags, debug not active: --project-dir P --godel-config
\* P/godel/config/godel.yml --config P/godel/config/echo.yml echo foo --bar
\* baz.
C11_Witness ==
    /\ launch.mode = "task"
    /\ ~launch.global.debug
    /\ launch.tasks[1].info.globalFlagOptions =
          [debugFlag |-> "--debug", projectDirFlag |-> "--project-dir",
           godelConfigFlag |-> "--godel-config", configFlag |-> "--config"]
    /\ launch.tail = <<Word("foo"), Word("--bar"), Word("baz")>>
    /\ launch.runs[1].args =
          <<Word("--project-dir"), Word("project"),
            Word("--godel-config"), <<"project", "godel", "config", "godel.yml">>,
            Word("--config"), <<"project", "godel", "config", "echo.yml">>,
            Word("echo"), Word("foo"), Word("--bar"), Word("baz")>>

\* C12: verify gives a task none of the user's arguments; with apply=true
\* the arguments end with the command of the task, with apply=false they
\* end with the applyFalseArgs the task declares; the tasks of the plugins
\* run after the built-in tasks of verify.
C12_VerifyArguments ==
    launch.mode = "verify" =>
        LET builtins == Len(BuiltinVerifyTasks)
        IN /\ Len(launch.runs) = builtins + Len(launch.tasks)
           /\ \A i \in 1..builtins :
                 launch.runs[i].builtin /\ launch.runs[i].name = BuiltinVerifyTasks[i]
           /\ \A i \in 1..Len(launch.tasks) :
                 LET task == launch.tasks[i]
                     r == launch.runs[builtins + i]
                     extra == IF launch.apply THEN <<>> ELSE task.info.applyFalseArgs
                     n == Len(r.args) - Len(extra) - 1
                 IN /\ ~r.builtin
                    /\ r.name = task.info.Name
                    /\ r.exec = task.exec
                    /\ n >= 0
                    /\ IsGlobalFlagArgs(SubSeq(r.args, 1, n), task.info, launch.global)
                    /\ r.args[n + 1] = Word(task.info.Command)
                    /\ SubSeq(r.args, n + 2, Len(r.args)) = extra

\* ./godelw verify --apply=false with an argument after it, for a task
\* that declares all four flags and the applyFalseArgs --verify, debug not
\* active: the built-in tasks, then echo-task with ... echo --verify.
C12_Witness ==
    /\ launch.mode = "verify"
    /\ ~launch.apply
    /\ ~launch.global.debug
    /\ launch.tail # <<>>
    /\ Len(launch.tasks) = 1
    /\ launch.tasks[1].info.applyFalseArgs = <<Word("--verify")>>
    /\ launch.runs[Len(launch.runs)].name = "echo-task"
    /\ launch.runs[Len(launch.runs) - 1].name = "varcheck"
    /\ launch.runs[Len(launch.runs)].args =
          <<Word("--project-dir"), Word("project"),
            Word("--godel-config"), <<"project", "godel", "config", "godel.yml">>,
            Word("--config"), <<"project", "godel", "config", "echo.yml">>,
            Word("echo"), Word("--verify")>>

====
